---------------------------- MODULE Spec2Model ----------------------------
(***************************************************************************)
(* Model of the sm-model preprocessing pipeline:                           *)
(*   ee_parser.ee_to_df            the Fetcher                             *)
(*   ee_parser.dry_days            the dry-day streak                      *)
(*   ee_parser.add_vegetation_index                                        *)
(*   ee_parser.assemble_variables  the Assembler                           *)
(*   preprocessing.compile_data    the Driver                              *)
(*                                                                         *)
(* Dates are day numbers.  A DataFrame is a record                         *)
(*   [cols |-> sequence of column names,                                   *)
(*    rows |-> sequence of [Date |-> day, v |-> [column -> value]]]        *)
(* whose rows are in index order.  Values are integers; a missing value    *)
(* (pandas NaN) and a null cell of the remote answer (None) are two        *)
(* integers outside the range of the data.                                 *)
(***************************************************************************)
EXTENDS Integers, Sequences, FiniteSets, TLC

VARIABLES
    \* ---- compile_data (preprocessing.py) ----
    pc,              \* position of the run
    requested,       \* settings['variables'] as the settings file gives it
    variable_list,   \* settings['variables'] and variable_list: ONE list object
    overwrite_variables,
    interpolate_index,
    data_source,     \* "ICOS" or "ISMN": decides df_sm.columns
    site_count,      \* len(site_info)
    station,         \* number of the site being processed (registry order)
    entry,           \* site_info[station]: start_date, end_date
    df_sm_subset,    \* the ground-truth rows of the station
    dataframes,      \* assemble_variables: the per-variable tables so far
    df_ee,           \* the table assemble_variables returned
    timed_out,       \* assemble_variables: the polarizations whose warning
                     \* (lines 209, 215) this call has printed
    df,              \* the accumulated compiled table
    raised,          \* the exception that left compile_data, or "none"
    log,             \* per site: what the Driver did with it
    \* ---- one call of ee_to_df or dry_days on its own ----
    u_pc,
    u_in,
    u_out

vars == <<pc, requested, variable_list, overwrite_variables, interpolate_index, data_source,
          site_count, station, entry, df_sm_subset, dataframes, df_ee, df,
          raised, log, timed_out, u_pc, u_in, u_out>>

driver_vars == <<pc, requested, variable_list, overwrite_variables, interpolate_index,
                 data_source, site_count, station, entry, df_sm_subset,
                 dataframes, df_ee, df, raised, log, timed_out>>

unit_vars == <<u_pc, u_in, u_out>>

----------------------------------------------------------------------------
(* Bounds of the model                                                     *)

\* days of a site's ground-truth rows and date range are 1..MaxDay
MaxDay == 3
\* a call of ee_to_df on its own: its range lies in 1..MaxDate, and the rows
\* of the answer fall on the days 0..MaxDate
MaxDate == 2
\* rows in one answer of the remote query
MaxRows == 2
\* length of the precipitation series given to dry_days on its own
MaxLen == 6
\* length of settings['variables']
MaxVars == 2
\* number of sites in the registry
MaxSites == 2
\* ground-truth rows of one ISMN site
MaxGround == 3
\* a run handles at most this many variables and sites together
MaxWork == 3

----------------------------------------------------------------------------
(* Values                                                                  *)

NaN == -1000000
None == -2000000

IsNum(x) == x # NaN /\ x # None

\* the remote service stamps rows in milliseconds; the model's clock has
\* TicksPerDay ticks to the day, so that two stamps can fall on one date
TicksPerDay == 2

Range(s) == {s[k] : k \in 1..Len(s)}

SeqsUpTo(S, n) == UNION {[1..k -> S] : k \in 0..n}

Min(S) == CHOOSE x \in S : \A y \in S : x <= y
Max(S) == CHOOSE x \in S : \A y \in S : y <= x

\* x in s
In(x, s) == \E k \in 1..Len(s) : s[k] = x

----------------------------------------------------------------------------
(* pandas                                                                  *)

\* pd.DataFrame(columns=bands)
EmptyFrame(columns) == [cols |-> columns, rows |-> <<>>]

\* pd.date_range(start=start_date, end=end_date, freq='D')
date_range(start_date, end_date) ==
    [k \in 1..(IF end_date >= start_date THEN end_date - start_date + 1 ELSE 0)
        |-> start_date + k - 1]

Index(frame) == [k \in 1..Len(frame.rows) |-> frame.rows[k].Date]

Column(frame, c) == [k \in 1..Len(frame.rows) |-> frame.rows[k].v[c]]

\* pd.to_numeric(..., errors='coerce')
to_numeric(x) == IF x = None THEN NaN ELSE x

\* pd.to_datetime(df['time'], unit='ms') followed by .dt.date
ToDate(time) == time \div TicksPerDay

\* Series.interpolate(method='linear', limit=limit, limit_direction='both'):
\* a NaN is filled when it lies within `limit` places after a valid value or
\* within `limit` places before one; between two valid values linearly (by
\* position), before the first and after the last with the nearest value.
interpolate(s, limit) ==
    [k \in 1..Len(s) |->
        IF s[k] # NaN THEN s[k]
        ELSE LET before == {i \in 1..(k-1) : s[i] # NaN}
                 after  == {j \in (k+1)..Len(s) : s[j] # NaN}
                 i == IF before = {} THEN 0 ELSE Max(before)
                 j == IF after = {} THEN 0 ELSE Min(after)
                 near == (i # 0 /\ k - i <= limit) \/ (j # 0 /\ j - k <= limit)
             IN IF ~near THEN NaN
                ELSE IF i = 0 THEN s[j]
                ELSE IF j = 0 THEN s[i]
                ELSE s[i] + ((s[j] - s[i]) * (k - i)) \div (j - i)]

\* df.index.duplicated(): TRUE at every row whose date occurred above it
duplicated(frame) ==
    [k \in 1..Len(frame.rows) |->
        \E i \in 1..(k-1) : frame.rows[i].Date = frame.rows[k].Date]

\* df[mask]
Select(frame, mask) ==
    LET keep == {k \in 1..Len(frame.rows) : mask[k]}
        nth[n \in 0..Len(frame.rows)] ==
            IF n = 0 THEN 0 ELSE Min({k \in keep : k > nth[n-1]})
    IN [cols |-> frame.cols,
        rows |-> [n \in 1..Cardinality(keep) |-> frame.rows[nth[n]]]]

\* a Fetcher that forgets line 149
KeepDuplicatedIndex(frame) == frame

\* df[~df.index.duplicated()]
DropDuplicatedIndex(frame) ==
    Select(frame, [k \in 1..Len(frame.rows) |-> ~duplicated(frame)[k]])

HasDuplicatedIndex(frame) == \E k \in 1..Len(frame.rows) : duplicated(frame)[k]

NaNRow(frame, d) == [Date |-> d, v |-> [c \in Range(frame.cols) |-> NaN]]

\* a Fetcher that forgets line 150
reindex_skipped(frame, target) == frame

\* df.reindex(target): one row per label of target, taken from the row of df
\* with that label, all-NaN where df has none.  (pandas raises ValueError when
\* the index of df holds a label twice: see ReindexRaises.)
reindex(frame, target) ==
    [cols |-> frame.cols,
     rows |-> [k \in 1..Len(target) |->
                LET hit == {i \in 1..Len(frame.rows) : frame.rows[i].Date = target[k]}
                IN IF hit = {} THEN NaNRow(frame, target[k])
                   ELSE frame.rows[Min(hit)]]]

ReindexRaises(frame) == HasDuplicatedIndex(frame)


----------------------------------------------------------------------------
(* ee_parser.py: the Fetcher                                               *)

\* What one call of ee_to_df meets:
\*   [kind |-> "rows", rows |-> ...]  getRegion(...).getInfo() answers
\*   [kind |-> "error"]               the query raises (HttpError, EEException)
\*   [kind |-> "timeout", at |-> ..]  the @timeout(600) watchdog fires
\* A row of the answer is [time |-> tick, v |-> [band -> number or None]].
RawValues == {None, 12}

Ticks == 0..(TicksPerDay * (MaxDate + 1) - 1)

AnswerRows(bands) == [time : Ticks, v : [Range(bands) -> RawValues]]

Answers(bands) ==
    {[kind |-> "rows", rows |-> r] : r \in SeqsUpTo(AnswerRows(bands), MaxRows)}

\* The watchdog of `from timeout import timeout` interrupts the call and
\* raises a timeout condition.  The condition surfaces either inside the
\* running query (line 124, within the try) or at the caller of ee_to_df
\* (the case lines 205-215 of assemble_variables guard against).
TimeoutOutcomes ==
    {[kind |-> "timeout", at |-> "query"], [kind |-> "timeout", at |-> "caller"]}

Failures == {[kind |-> "error"]} \cup TimeoutOutcomes

\* lines 125-141: the answer as a table indexed by date
ParseAnswer(rows, int_limit, bands) ==
    LET numeric(b) == [k \in 1..Len(rows) |-> to_numeric(rows[k].v[b])]
        column(b) == IF int_limit > 0 THEN interpolate(numeric(b), int_limit)
                     ELSE numeric(b)
    IN [cols |-> bands,
        rows |-> [k \in 1..Len(rows) |->
                    [Date |-> ToDate(rows[k].time),
                     v |-> [b \in Range(bands) |-> column(b)[k]]]]]

\* ee_to_df under @timeout(600): [raised |-> exception or "none", df |-> table]
ee_to_df(outcome, int_limit, bands, start_date, end_date) ==
    IF outcome.kind = "timeout" /\ outcome.at = "caller"
    THEN [raised |-> "TimeoutError", df |-> EmptyFrame(<<>>)]
    ELSE LET parsed == IF outcome.kind = "rows"
                       THEN ParseAnswer(outcome.rows, int_limit, bands)
                       ELSE EmptyFrame(bands)          \* the bare except
             unique == DropDuplicatedIndex(parsed)
         IN IF ReindexRaises(unique)
            THEN [raised |-> "ValueError", df |-> EmptyFrame(<<>>)]
            ELSE [raised |-> "none",
                  df |-> reindex(unique, date_range(start_date, end_date))]

\* the seven calls of ee_to_df in assemble_variables
CallSites ==
    {[bands |-> <<"LST_Day_1km">>, int_limit |-> 5],
     [bands |-> <<"VV">>, int_limit |-> 0],
     [bands |-> <<"VH">>, int_limit |-> 0],
     [bands |-> <<"B4", "B8">>, int_limit |-> 0],
     [bands |-> <<"B8A", "B11">>, int_limit |-> 0],
     [bands |-> <<"mean_2m_air_temperature">>, int_limit |-> 0],
     [bands |-> <<"total_precipitation">>, int_limit |-> 0]}

----------------------------------------------------------------------------
(* ee_parser.py: derived indices                                           *)

\* NaN > 0 is False in Python: a missing value counts as a dry day
Wet(value) == IsNum(value) /\ value > 0

\* a loop that forgets `counter = 0` (line 161)
RECURSIVE dry_streak_no_reset(_, _, _)
dry_streak_no_reset(P, k, counter) ==
    IF k > Len(P) THEN <<>>
    ELSE IF Wet(P[k]) THEN <<0>> \o dry_streak_no_reset(P, k + 1, counter)
    ELSE <<counter + 1>> \o dry_streak_no_reset(P, k + 1, counter + 1)

\* the loop of dry_days from row k on, with the counter it has reached
RECURSIVE dry_streak(_, _, _)
dry_streak(P, k, counter) ==
    IF k > Len(P) THEN <<>>
    ELSE IF Wet(P[k]) THEN <<0>> \o dry_streak(P, k + 1, 0)
    ELSE <<counter + 1>> \o dry_streak(P, k + 1, counter + 1)

WithColumn(frame, name, values) ==
    [cols |-> IF In(name, frame.cols) THEN frame.cols ELSE Append(frame.cols, name),
     rows |-> [k \in 1..Len(frame.rows) |->
                [Date |-> frame.rows[k].Date,
                 v |-> [c \in Range(frame.cols) \cup {name} |->
                          IF c = name THEN values[k] ELSE frame.rows[k].v[c]]]]]

dry_days(frame) == WithColumn(frame, "DD", dry_streak(Column(frame, "P"), 1, 0))

\* df[name] = (df[band_1] - df[band_2]) / (df[band_1] + df[band_2]), in
\* thousandths.  Reflectances are not negative, so the sum is 0 only when
\* both bands are 0, and 0/0 is NaN.
NormalizedDifference(a, b) ==
    IF a = NaN \/ b = NaN \/ a + b = 0 THEN NaN
    ELSE ((a - b) * 1000) \div (a + b)

add_vegetation_index(frame, name, band_1, band_2, interpolate_it) ==
    LET ratio == [k \in 1..Len(frame.rows) |->
                    NormalizedDifference(frame.rows[k].v[band_1],
                                         frame.rows[k].v[band_2])]
    IN WithColumn(frame, name,
                  IF interpolate_it THEN interpolate(ratio, 30) ELSE ratio)

----------------------------------------------------------------------------
(* more pandas: arithmetic, rename, drop, merge, concat                    *)

\* frame * a + b, value by value; a missing value stays missing
MapValues(frame, a, b) ==
    [cols |-> frame.cols,
     rows |-> [k \in 1..Len(frame.rows) |->
                [Date |-> frame.rows[k].Date,
                 v |-> [c \in Range(frame.cols) |->
                          IF frame.rows[k].v[c] = NaN THEN NaN
                          ELSE a * frame.rows[k].v[c] + b]]]]

\* df.rename(columns={old : new})
Rename(frame, old, new) ==
    LET to(c) == IF c = old THEN new ELSE c
        from(n) == CHOOSE c \in Range(frame.cols) : to(c) = n
    IN [cols |-> [i \in 1..Len(frame.cols) |-> to(frame.cols[i])],
        rows |-> [k \in 1..Len(frame.rows) |->
                   [Date |-> frame.rows[k].Date,
                    v |-> [n \in {to(c) : c \in Range(frame.cols)} |->
                             frame.rows[k].v[from(n)]]]]]

\* df.drop(names, axis=1)
Drop(frame, names) ==
    LET kept == SelectSeq(frame.cols, LAMBDA c : c \notin names)
    IN [cols |-> kept,
        rows |-> [k \in 1..Len(frame.rows) |->
                   [Date |-> frame.rows[k].Date,
                    v |-> [c \in Range(kept) |-> frame.rows[k].v[c]]]]]

SortedSeq(S) ==
    LET nth[n \in 0..Cardinality(S)] ==
            IF n = 0 THEN Min(S) - 1 ELSE Min({x \in S : x > nth[n-1]})
    IN [n \in 1..Cardinality(S) |-> nth[n]]

\* a lookup that takes the first row whatever its date
ValueAt_ignores_date(frame, d, c) ==
    IF frame.rows = <<>> THEN NaN ELSE frame.rows[1].v[c]

ValueAt(frame, d, c) ==
    LET hit == {i \in 1..Len(frame.rows) : frame.rows[i].Date = d}
    IN IF hit = {} THEN NaN ELSE frame.rows[Min(hit)].v[c]

\* pd.merge(left, right, on=['Date'], how='outer') of two tables that hold
\* each date once (line 149) and share no column: one row per date of
\* either table, in date order, the values looked up by date.
merge_outer(left, right) ==
    LET dates == SortedSeq(Range(Index(left)) \cup Range(Index(right)))
    IN [cols |-> left.cols \o right.cols,
        rows |-> [k \in 1..Len(dates) |->
                   [Date |-> dates[k],
                    v |-> [c \in Range(left.cols) \cup Range(right.cols) |->
                             IF c \in Range(left.cols)
                             THEN ValueAt(left, dates[k], c)
                             ELSE ValueAt(right, dates[k], c)]]]]

\* reduce(lambda left, right: pd.merge(...), dataframes), dataframes not empty
RECURSIVE reduce_merge(_, _)
reduce_merge(acc, rest) ==
    IF rest = <<>> THEN acc
    ELSE reduce_merge(merge_outer(acc, Head(rest)), Tail(rest))

\* the rows of pd.merge(left, right, how='left', left_index=True,
\* right_index=True) from row k of left on: every row of left once for each
\* row of right with its date, once alone when right has none.  A column
\* name of both tables gets the suffix _x (left) or _y (right).
RECURSIVE left_rows(_, _, _)
left_rows(left, right, k) ==
    IF k > Len(left.rows) THEN <<>>
    ELSE LET l == left.rows[k]
             both == Range(left.cols) \cap Range(right.cols)
             lname(c) == IF c \in both THEN c \o "_x" ELSE c
             rname(c) == IF c \in both THEN c \o "_y" ELSE c
             lnames == {lname(c) : c \in Range(left.cols)}
             rnames == {rname(c) : c \in Range(right.cols)}
             hits == SelectSeq(right.rows, LAMBDA r : r.Date = l.Date)
             joined(r) ==
                [Date |-> l.Date,
                 v |-> [n \in lnames \cup rnames |->
                          IF n \in lnames
                          THEN l.v[CHOOSE c \in Range(left.cols) : lname(c) = n]
                          ELSE IF r = <<>> THEN NaN
                          ELSE r[1].v[CHOOSE c \in Range(right.cols) : rname(c) = n]]]
         IN (IF hits = <<>> THEN <<joined(<<>>)>>
             ELSE [n \in 1..Len(hits) |-> joined(<<hits[n]>>)])
            \o left_rows(left, right, k + 1)

merge_left(left, right) ==
    LET both == Range(left.cols) \cap Range(right.cols)
    IN [cols |-> [i \in 1..Len(left.cols) |->
                    IF left.cols[i] \in both THEN left.cols[i] \o "_x"
                    ELSE left.cols[i]]
                 \o [i \in 1..Len(right.cols) |->
                    IF right.cols[i] \in both THEN right.cols[i] \o "_y"
                    ELSE right.cols[i]],
        rows |-> left_rows(left, right, 1)]

\* pd.concat([first, second]): the columns of either, the rows of both
concat(first, second) ==
    LET columns == first.cols
                   \o SelectSeq(second.cols, LAMBDA c : ~In(c, first.cols))
        padded(frame) ==
            [k \in 1..Len(frame.rows) |->
                [Date |-> frame.rows[k].Date,
                 v |-> [c \in Range(columns) |->
                          IF c \in Range(frame.cols) THEN frame.rows[k].v[c]
                          ELSE NaN]]]
    IN [cols |-> columns, rows |-> padded(first) \o padded(second)]

----------------------------------------------------------------------------
(* What the Driver and the Assembler read                                  *)

\* the variables a family of assemble_variables fetches, in the order of the
\* code, and a name no family knows
Families == <<"TS", "VV", "VH", "NDVI", "NDWI", "TA", "P">>

VarNames == Range(Families) \cup {"LAI"}

\* df_sm.columns: icos_reader.py line 95, ismn_reader.py line 95
GroundColumns(source) ==
    IF source = "ICOS" THEN <<"SITE", "SWC", "TS", "TA", "P">>
    ELSE <<"SITE", "SWC", "TS">>

\* The dates of the ground-truth rows of one site, in file order.  ICOS
\* resamples to every day between the first and the last reading; ISMN
\* appends sensor after sensor and drops days (bad flags, snow), so its dates
\* may repeat, leave gaps and be out of order.
GroundDates(source) ==
    IF source = "ICOS"
    THEN {date_range(a, b) : a \in 1..MaxDay, b \in 1..MaxDay} \ {<<>>}
    ELSE SeqsUpTo(1..MaxDay, MaxGround) \ {<<>>}

\* both readers: start_date is the date of the site's first row, end_date
\* that of its last row (icos_reader.py 91-92, ismn_reader.py 99-102)
RegistryEntry(dates) ==
    [start_date |-> dates[1], end_date |-> dates[Len(dates)]]

RequiredFields == {"longitude", "latitude", "start_date", "end_date"}

\* the measurements of ground row k of a site, one number for the row
GroundValue(site, k) == 100 * site + k

GroundRows(site, dates) ==
    [k \in 1..Len(dates) |-> [DATE |-> dates[k], val |-> GroundValue(site, k)]]

\* df_sm[df_sm['SITE'] == station] with its index as dates
GroundFrame(site, rows, source) ==
    [cols |-> GroundColumns(source),
     rows |-> [k \in 1..Len(rows) |->
                [Date |-> rows[k].DATE,
                 v |-> [c \in Range(GroundColumns(source)) |->
                          IF c = "SITE" THEN site ELSE rows[k].val]]]]

\* What the remote service holds for a band on a day (Kelvin, scaled Kelvin,
\* metres of rain, reflectances): precipitation on odd days only, the red
\* and near-infrared bands both 0 on even days.
RemoteValue(band, day) ==
    CASE band = "LST_Day_1km" -> 14000 + 50 * day
      [] band = "total_precipitation" -> day % 2
      [] band = "B4" -> 10 * (day % 2)
      [] band = "B8" -> 30 * (day % 2)
      [] band = "B8A" -> 20 + day
      [] band = "B11" -> 10
      [] OTHER -> 280 + day

RemoteRow(bands, day) ==
    [time |-> TicksPerDay * day, v |-> [b \in Range(bands) |-> RemoteValue(b, day)]]

\* an answer with one row for every day of the range
DailyAnswer(bands, start_date, end_date) ==
    [kind |-> "rows",
     rows |-> [k \in 1..Len(date_range(start_date, end_date)) |->
                RemoteRow(bands, start_date + k - 1)]]

\* an answer of a sensor that revisits: the last day twice (the second row
\* masked), and a row of the day before the range
RevisitAnswer(bands, start_date, end_date) ==
    [kind |-> "rows",
     rows |-> <<RemoteRow(bands, end_date),
                [time |-> TicksPerDay * end_date + 1,
                 v |-> [b \in Range(bands) |-> None]],
                RemoteRow(bands, start_date - 1)>>]

Outcomes(bands, start_date, end_date) ==
    {DailyAnswer(bands, start_date, end_date),
     RevisitAnswer(bands, start_date, end_date)} \cup Failures

----------------------------------------------------------------------------
(* preprocessing.py lines 34-38: the variables still to fetch              *)

\* Python's ~ on a bool is the integer complement: ~True = -2, ~False = -1
Invert(b) == IF b THEN -2 ELSE -1

Truthy(n) == n # 0

\* list.remove(x): the list without the first x
Remove(list, x) ==
    LET at == Min({k \in 1..Len(list) : list[k] = x})
    IN [k \in 1..(Len(list) - 1) |-> IF k < at THEN list[k] ELSE list[k + 1]]

\* `for var in settings['variables']` over the list that the body shortens:
\* the iterator holds a position i and stops when i passes the end.
RECURSIVE remove_loop(_, _, _)
remove_loop(list, i, columns) ==
    IF i > Len(list) THEN list
    ELSE IF In(list[i], columns)
         THEN remove_loop(Remove(list, list[i]), i + 1, columns)
         ELSE remove_loop(list, i + 1, columns)

FilteredVariables(list, overwrite, columns) ==
    IF Truthy(Invert(overwrite)) THEN remove_loop(list, 1, columns) ELSE list

----------------------------------------------------------------------------
(* compile_data and assemble_variables as a run                            *)

\* the first family after `after` (0: from the start) whose variable is
\* requested, or the merge when there is none
NextStep(after, list) ==
    LET later == {i \in (after + 1)..Len(Families) : In(Families[i], list)}
    IN IF later = {} THEN "merge_vars" ELSE Families[Min(later)]

FamilyIndex(name) == CHOOSE i \in 1..Len(Families) : Families[i] = name

\* a loop that ends at the first site it has handled
AfterSite_stop(st, n) == "finish"

\* lines 43 and 61: on to the next site of the registry, if there is one
AfterSite(st, n) == IF st + 1 > n THEN "finish" ELSE "site"

\* an exception no handler catches leaves compile_data
Propagate(exception) ==
    /\ pc' = "crashed"
    /\ raised' = exception
    /\ UNCHANGED <<timed_out, u_pc, u_in, u_out, requested, variable_list, overwrite_variables, interpolate_index,
                   data_source, site_count, station, entry, df_sm_subset,
                   dataframes, df_ee, df, log>>

\* dataframes.append(table), then on to the next requested family
Proceed(table, family) ==
    /\ dataframes' = Append(dataframes, table)
    /\ pc' = NextStep(FamilyIndex(family), variable_list)
    /\ UNCHANGED <<timed_out, u_pc, u_in, u_out, requested, variable_list, overwrite_variables, interpolate_index,
                   data_source, site_count, station, entry, df_sm_subset,
                   df_ee, df, raised, log>>

\* a radar polarization whose fetch raised is left out (lines 208, 214)
Omit(family) ==
    /\ pc' = NextStep(FamilyIndex(family), variable_list)
    /\ timed_out' = timed_out \cup {family}
    /\ UNCHANGED <<u_pc, u_in, u_out, requested, variable_list, overwrite_variables, interpolate_index,
                   data_source, site_count, station, entry, df_sm_subset,
                   dataframes, df_ee, df, raised, log>>

\* lines 34-38
FilterVariables ==
    /\ pc = "filter"
    /\ variable_list' = FilteredVariables(variable_list, overwrite_variables,
                                          GroundColumns(data_source))
    /\ station' = 1
    /\ pc' = "site"
    /\ UNCHANGED <<timed_out, u_pc, u_in, u_out, requested, overwrite_variables, interpolate_index, data_source,
                   site_count, entry, df_sm_subset, dataframes, df_ee, df,
                   raised, log>>

\* lines 43-51 for a site whose registry entry has its four fields: the
\* ground rows are selected and assemble_variables starts
BeginSite ==
    /\ pc = "site"
    /\ \E dates \in GroundDates(data_source) :
            /\ entry' = RegistryEntry(dates)
            /\ df_sm_subset' = GroundRows(station, dates)
    /\ dataframes' = <<>>
    /\ timed_out' = {}
    /\ pc' = NextStep(0, variable_list)
    /\ UNCHANGED <<u_pc, u_in, u_out, requested, variable_list, overwrite_variables, interpolate_index,
                   data_source, site_count, station, df_ee, df, raised, log>>

\* lines 47-61 for a site whose registry entry lacks a field: the lookup
\* raises KeyError before assemble_variables is called, the handler passes
SkipSite ==
    /\ pc = "site"
    /\ \E field \in RequiredFields :
            log' = Append(log, [site |-> station, result |-> "skipped",
                                missing |-> field])
    /\ station' = station + 1
    /\ pc' = AfterSite(station, site_count)
    /\ UNCHANGED <<timed_out, u_pc, u_in, u_out, requested, variable_list, overwrite_variables, interpolate_index,
                   data_source, site_count, entry, df_sm_subset, dataframes,
                   df_ee, df, raised>>

Fetch(bands, int_limit) ==
    {ee_to_df(outcome, int_limit, bands, entry.start_date, entry.end_date) :
        outcome \in Outcomes(bands, entry.start_date, entry.end_date)}

\* hundredths of a degree Celsius from scaled Kelvin: lst * 0.02 - 273.15
LstToCelsius(frame) == MapValues(frame, 2, -27315)

\* hundredths of a degree Celsius from Kelvin: era5_t - 273.15
KelvinToCelsius(frame) == MapValues(frame, 100, -27315)

\* millimetres from metres: era5_p * 1000
MetresToMm(frame) == MapValues(frame, 1000, 0)

\* lines 186-193
FetchTS ==
    /\ pc = "TS"
    /\ \E r \in Fetch(<<"LST_Day_1km">>, 5) :
         IF r.raised # "none" THEN Propagate(r.raised)
         ELSE Proceed(Rename(LstToCelsius(r.df), "LST_Day_1km", "TS"), "TS")

\* lines 204-209
FetchVV ==
    /\ pc = "VV"
    /\ \E r \in Fetch(<<"VV">>, 0) :
         IF r.raised # "none" THEN Omit("VV") ELSE Proceed(r.df, "VV")

\* lines 210-215
FetchVH ==
    /\ pc = "VH"
    /\ \E r \in Fetch(<<"VH">>, 0) :
         IF r.raised # "none" THEN Omit("VH") ELSE Proceed(r.df, "VH")

\* lines 223-228
FetchNDVI ==
    /\ pc = "NDVI"
    /\ \E r \in Fetch(<<"B4", "B8">>, 0) :
         IF r.raised # "none" THEN Propagate(r.raised)
         ELSE Proceed(Drop(add_vegetation_index(r.df, "NDVI", "B8", "B4",
                                                interpolate_index),
                           {"B4", "B8"}), "NDVI")

\* lines 229-234
FetchNDWI ==
    /\ pc = "NDWI"
    /\ \E r \in Fetch(<<"B8A", "B11">>, 0) :
         IF r.raised # "none" THEN Propagate(r.raised)
         ELSE Proceed(Drop(add_vegetation_index(r.df, "NDWI", "B8A", "B11",
                                                interpolate_index),
                           {"B8A", "B11"}), "NDWI")

\* lines 244-248
FetchTA ==
    /\ pc = "TA"
    /\ \E r \in Fetch(<<"mean_2m_air_temperature">>, 0) :
         IF r.raised # "none" THEN Propagate(r.raised)
         ELSE Proceed(Rename(KelvinToCelsius(r.df),
                             "mean_2m_air_temperature", "TA"), "TA")

\* lines 249-254
FetchP ==
    /\ pc = "P"
    /\ \E r \in Fetch(<<"total_precipitation">>, 0) :
         IF r.raised # "none" THEN Propagate(r.raised)
         ELSE Proceed(dry_days(Rename(MetresToMm(r.df),
                                      "total_precipitation", "P")), "P")

\* df['SITE'] = point_id
WithSite(frame, point_id) ==
    WithColumn(frame, "SITE", [k \in 1..Len(frame.rows) |-> point_id])

\* lines 256-263: reduce() of an empty list raises TypeError, which is
\* caught; `return df` then finds df unbound, and the UnboundLocalError is
\* neither a KeyError nor an AttributeError for the handler of line 58
MergeVariables ==
    /\ pc = "merge_vars"
    /\ IF dataframes = <<>> THEN Propagate("UnboundLocalError")
       ELSE /\ df_ee' = WithSite(reduce_merge(Head(dataframes), Tail(dataframes)),
                                 station)
            /\ pc' = "merge_site"
            /\ UNCHANGED <<timed_out, u_pc, u_in, u_out, requested, variable_list, overwrite_variables,
                           interpolate_index, data_source, site_count, station,
                           entry, df_sm_subset, dataframes, df, raised, log>>

\* lines 52-56: the rows of the site
SiteRows(table, site, rows, source, start_date, end_date) ==
    Drop(Rename(merge_left(reindex(table, date_range(start_date, end_date)),
                           GroundFrame(site, rows, source)),
                "SITE_x", "SITE"),
         {"SITE_y"})

\* lines 52-61
MergeSite ==
    /\ pc = "merge_site"
    /\ LET df_subset == SiteRows(df_ee, station, df_sm_subset, data_source,
                                 entry.start_date, entry.end_date)
       IN /\ df' = concat(df, df_subset)
          /\ log' = Append(log, [site |-> station, result |-> "merged",
                                 ground |-> df_sm_subset,
                                 start_date |-> entry.start_date,
                                 end_date |-> entry.end_date,
                                 rows |-> df_subset.rows])
    /\ station' = station + 1
    /\ pc' = AfterSite(station, site_count)
    /\ UNCHANGED <<timed_out, u_pc, u_in, u_out, requested, variable_list, overwrite_variables, interpolate_index,
                   data_source, site_count, entry, df_sm_subset, dataframes,
                   df_ee, raised>>

\* lines 65-68
BaseVariables(list) ==
    <<"SITE", "SWC", "TS", "TA", "P">>
    \o SelectSeq(list, LAMBDA var : var \notin {"SITE", "SWC", "TS", "TA", "P"})

\* a selection that keeps the columns as the table has them
SelectColumns_keep_order(frame, names) == frame

\* df[base_variables]: the named columns, in the order named
SelectColumns(frame, names) ==
    [cols |-> names,
     rows |-> [k \in 1..Len(frame.rows) |->
                [Date |-> frame.rows[k].Date,
                 v |-> [c \in Range(names) |-> frame.rows[k].v[c]]]]]

\* lines 63-72: df[base_variables] raises KeyError when a name is no column
Finish ==
    /\ pc = "finish"
    /\ IF Range(BaseVariables(variable_list)) \subseteq Range(df.cols)
       THEN /\ df' = SelectColumns(df, BaseVariables(variable_list))
            /\ pc' = "done"
            /\ UNCHANGED <<timed_out, u_pc, u_in, u_out, requested, variable_list, overwrite_variables,
                           interpolate_index, data_source, site_count, station,
                           entry, df_sm_subset, dataframes, df_ee, raised, log>>
       ELSE Propagate("KeyError")

UnitOff == u_pc = "off" /\ u_in = [op |-> "none"] /\ u_out = [op |-> "none"]

Init ==
    /\ pc = "filter"
    /\ requested \in {l \in SeqsUpTo(VarNames, MaxVars) :
                        \A i, j \in 1..Len(l) : l[i] = l[j] => i = j}
    /\ variable_list = requested
    /\ overwrite_variables \in BOOLEAN
    /\ interpolate_index \in
          (IF In("NDVI", requested) \/ In("NDWI", requested) THEN BOOLEAN ELSE {FALSE})
    /\ data_source \in {"ICOS", "ISMN"}
    /\ site_count \in 1..MaxSites
    /\ Len(requested) + site_count <= MaxWork
    /\ station = 0
    /\ entry = [op |-> "none"]
    /\ df_sm_subset = <<>>
    /\ dataframes = <<>>
    /\ df_ee = EmptyFrame(<<>>)
    /\ df = EmptyFrame(<<>>)
    /\ raised = "none"
    /\ log = <<>>
    /\ timed_out = {}
    /\ UnitOff

Next ==
    \/ FilterVariables
    \/ BeginSite
    \/ SkipSite
    \/ FetchTS
    \/ FetchVV
    \/ FetchVH
    \/ FetchNDVI
    \/ FetchNDWI
    \/ FetchTA
    \/ FetchP
    \/ MergeVariables
    \/ MergeSite
    \/ Finish

Spec == Init /\ [][Next]_vars

----------------------------------------------------------------------------
(* One call of ee_to_df or of dry_days, on inputs drawn from the bounds     *)

PrecipitationValues == {NaN, 0, 5}

PrecipitationFrames ==
    {[cols |-> <<"P">>,
      rows |-> [k \in 1..Len(p) |-> [Date |-> k, v |-> [c \in {"P"} |-> p[k]]]]]
        : p \in SeqsUpTo(PrecipitationValues, MaxLen)}

CallEeToDf ==
    /\ u_pc = "idle"
    /\ \E cs \in CallSites, start_date \in 1..MaxDate, end_date \in 1..MaxDate :
         \E outcome \in Answers(cs.bands) \cup Failures :
            /\ u_in' = [op |-> "ee_to_df", outcome |-> outcome,
                        int_limit |-> cs.int_limit, bands |-> cs.bands,
                        start_date |-> start_date, end_date |-> end_date]
            /\ u_out' = ee_to_df(outcome, cs.int_limit, cs.bands, start_date, end_date)
    /\ u_pc' = "returned"
    /\ UNCHANGED driver_vars

CallDryDays ==
    /\ u_pc = "idle"
    /\ \E frame \in PrecipitationFrames :
            /\ u_in' = [op |-> "dry_days", df |-> frame]
            /\ u_out' = dry_days(frame)
    /\ u_pc' = "returned"
    /\ UNCHANGED driver_vars

Return ==
    /\ u_pc = "returned"
    /\ u_pc' = "idle"
    /\ u_in' = [op |-> "none"]
    /\ u_out' = [op |-> "none"]
    /\ UNCHANGED driver_vars

DriverOff ==
    /\ pc = "off"
    /\ requested = <<>>
    /\ variable_list = <<>>
    /\ overwrite_variables = FALSE
    /\ interpolate_index = FALSE
    /\ data_source = "ICOS"
    /\ site_count = 0
    /\ station = 0
    /\ entry = [op |-> "none"]
    /\ df_sm_subset = <<>>
    /\ dataframes = <<>>
    /\ df_ee = EmptyFrame(<<>>)
    /\ df = EmptyFrame(<<>>)
    /\ raised = "none"
    /\ log = <<>>
    /\ timed_out = {}

UnitInit == u_pc = "idle" /\ u_in = [op |-> "none"] /\ u_out = [op |-> "none"] /\ DriverOff

UnitNext == CallEeToDf \/ CallDryDays \/ Return

UnitSpec == UnitInit /\ [][UnitNext]_vars


----------------------------------------------------------------------------
(* Claims about the Fetcher and the dry-day streak (UnitSpec)              *)

FetchReturned == u_pc = "returned" /\ u_in.op = "ee_to_df"

FetchFailed == FetchReturned /\ u_in.outcome.kind \in {"error", "timeout"}

AllMissing(frame) ==
    \A k \in 1..Len(frame.rows) : \A c \in Range(frame.cols) : frame.rows[k].v[c] = NaN

\* C1: for start_date <= end_date, whatever rows the query answers (repeated
\* dates, dates outside the range, none) and also when the query fails,
\* ee_to_df returns a table, and the index of every table it returns is the
\* days start_date, start_date+1, ..., end_date, each once, in this order.
C1_IndexIsDailyCalendar ==
    (FetchReturned /\ u_in.start_date <= u_in.end_date) =>
        /\ u_in.outcome.kind \in {"rows", "error"} => u_out.raised = "none"
        /\ u_out.raised = "none" =>
            /\ Len(u_out.df.rows) = u_in.end_date - u_in.start_date + 1
            /\ \A k \in 1..Len(u_out.df.rows) :
                  u_out.df.rows[k].Date = u_in.start_date + k - 1

\* a call answered with two rows of one date that lies outside the range
C1_Witness ==
    /\ FetchReturned
    /\ u_in.outcome.kind = "rows"
    /\ Len(u_in.outcome.rows) = 2
    /\ u_in.outcome.rows[1].time # u_in.outcome.rows[2].time
    /\ ToDate(u_in.outcome.rows[1].time) = ToDate(u_in.outcome.rows[2].time)
    /\ ToDate(u_in.outcome.rows[1].time) < u_in.start_date
    /\ u_in.start_date < u_in.end_date
    /\ u_out.raised = "none"

\* C4: when the query fails or the call exceeds its timeout, ee_to_df does
\* not raise to its caller; it returns a table with exactly the requested
\* bands as columns and no observed value.
C4_FailureNeverRaises ==
    FetchFailed =>
        /\ u_out.raised = "none"
        /\ u_out.df.cols = u_in.bands
        /\ AllMissing(u_out.df)

\* C5 as stated: on timeout or query failure the returned table has the
\* requested band columns and zero rows.
C5_FailureHasNoRows ==
    (FetchFailed /\ u_out.raised = "none") =>
        /\ u_out.df.cols = u_in.bands
        /\ Len(u_out.df.rows) = 0

\* C5 amended: the table returned after a timeout or a query failure has the
\* requested band columns and one row for every day of start_date..end_date
\* (none only when the range is empty), every value of it missing.
C5_FailureIsAllMissingCalendar ==
    (FetchFailed /\ u_out.raised = "none") =>
        /\ u_out.df.cols = u_in.bands
        /\ Len(u_out.df.rows) =
              (IF u_in.end_date >= u_in.start_date
               THEN u_in.end_date - u_in.start_date + 1 ELSE 0)
        /\ \A k \in 1..Len(u_out.df.rows) :
              /\ u_out.df.rows[k].Date = u_in.start_date + k - 1
              /\ \A b \in Range(u_in.bands) : u_out.df.rows[k].v[b] = NaN

\* a failed two-band query over a range of several days
C5_Witness ==
    /\ FetchFailed
    /\ u_in.outcome.kind = "error"
    /\ Len(u_in.bands) = 2
    /\ u_in.end_date > u_in.start_date
    /\ u_out.raised = "none"
    /\ Len(u_out.df.rows) > 1

DryReturned == u_pc = "returned" /\ u_in.op = "dry_days"

\* C9: DD has the length and the index of P; DD[i] = 0 when P[i] > 0,
\* otherwise DD[i-1] + 1 (1 on the first row); so DD[i] counts the days
\* without precipitation that end at day i; [0,0,5,0,0,0] gives [1,2,0,1,2,3].
C9_DryDayStreak ==
    DryReturned =>
        LET P == Column(u_in.df, "P")
            DD == Column(u_out, "DD")
            rained(i) == P[i] # NaN /\ P[i] > 0
        IN /\ Len(u_out.rows) = Len(u_in.df.rows)
           /\ Index(u_out) = Index(u_in.df)
           /\ Column(u_out, "P") = P
           /\ \A i \in 1..Len(P) :
                /\ rained(i) => DD[i] = 0
                /\ (~rained(i) /\ i = 1) => DD[i] = 1
                /\ (~rained(i) /\ i > 1) => DD[i] = DD[i-1] + 1
                /\ DD[i] = Cardinality({j \in 1..i : \A m \in j..i : ~rained(m)})
           /\ P = <<0, 0, 5, 0, 0, 0>> => DD = <<1, 2, 0, 1, 2, 3>>

\* the series of the example, with a dry spell on either side of a wet day
C9_Witness ==
    /\ DryReturned
    /\ Column(u_in.df, "P") = <<0, 0, 5, 0, 0, 0>>
    /\ Len(u_out.rows) = 6


----------------------------------------------------------------------------
(* Claims about compile_data and assemble_variables (Spec)                 *)

Merged(i) == log[i].result = "merged"

ValidRange(i) == log[i].start_date <= log[i].end_date

\* C2: for every site the Driver has merged (over a range that starts no
\* later than it ends), the number of rows appended for the site equals the
\* number of ground-truth rows of the site.
C2_RowsEqualGroundRows ==
    \A i \in 1..Len(log) : (Merged(i) /\ ValidRange(i)) =>
        Len(log[i].rows) = Len(log[i].ground)

\* C3: for every site the Driver has merged (over a range that starts no
\* later than it ends), every ground-truth row of the site is among the
\* rows appended for it: a row of its date that carries its measurements.
C3_GroundRowsKept ==
    \A i \in 1..Len(log) : (Merged(i) /\ ValidRange(i)) =>
        \A g \in 1..Len(log[i].ground) :
            \E k \in 1..Len(log[i].rows) :
                /\ log[i].rows[k].Date = log[i].ground[g].DATE
                /\ log[i].rows[k].v["SWC"] = log[i].ground[g].val

\* a row of the compiled table is row l as it was appended: its date and its
\* values, missing in the columns the site did not have
SameRow(r, l) ==
    /\ r.Date = l.Date
    /\ \A c \in DOMAIN r.v : r.v[c] = (IF c \in DOMAIN l.v THEN l.v[c] ELSE NaN)

RECURSIVE AppendedRows(_)
AppendedRows(i) ==
    IF i = 0 THEN <<>>
    ELSE AppendedRows(i - 1) \o (IF Merged(i) THEN log[i].rows ELSE <<>>)

\* C6: a site whose registry entry lacks a field is skipped and nothing else
\* happens: the sites are handled one after the other in registry order, the
\* loop ends only when every site has been handled, and the compiled table
\* holds, in this order, exactly the rows appended for the sites that were
\* merged, so no row of a skipped site and no change by skipping it.
C6_SkipLeavesOthersAlone ==
    /\ \A i \in 1..Len(log) : log[i].site = i
    /\ pc = "site" => (Len(log) = station - 1 /\ station <= site_count)
    /\ pc \in {"finish", "done"} => Len(log) = site_count
    /\ Len(df.rows) = Len(AppendedRows(Len(log)))
    /\ \A k \in 1..Len(df.rows) : SameRow(df.rows[k], AppendedRows(Len(log))[k])
    /\ \A i \in 1..Len(log) : ~Merged(i) =>
            \A k \in 1..Len(df.rows) : df.rows[k].v["SITE"] # i

\* a finished run of two sites, the first without its longitude, the second
\* merged with its rows in the table that is written
C6_Witness ==
    /\ pc = "done"
    /\ site_count = 2
    /\ log[1].result = "skipped"
    /\ log[1].missing = "longitude"
    /\ Merged(2)
    /\ Len(log[2].rows) > 1
    /\ Len(df.rows) = Len(log[2].rows)

\* C7: a site for which no table was fetched is skipped; the condition does
\* not leave compile_data as an uncaught exception.
C7_NoTablesIsNoCrash ==
    ~(pc = "crashed" /\ dataframes = <<>> /\ raised = "UnboundLocalError")

\* C8: compile_data reaches its end and writes the compiled table, whatever
\* fetches fail or time out, whatever entries are malformed and whatever
\* variables are requested: no exception leaves it.
C8_RunNeverCrashes == pc # "crashed"

\* C10: after the filter (overwrite_variables false) the list of variables
\* to fetch holds no requested variable that is a ground-truth column, and
\* holds every requested variable that is none.
C10_GroundVariablesRemoved ==
    (pc # "filter" /\ ~overwrite_variables) =>
        \A i \in 1..Len(requested) :
            In(requested[i], variable_list)
                <=> ~In(requested[i], GroundColumns(data_source))

----------------------------------------------------------------------------
(* Claims about the compiled table and the list handed to the Assembler    *)

Written == pc = "done"

\* C11: the table compile_data writes has the columns SITE, SWC, TS, TA, P
\* in this order, followed by the requested variables that are none of
\* these, in the order of the request as the settings file gives it; for
\* every request list and either value of overwrite_variables.
C11_ColumnOrder ==
    Written =>
        df.cols = <<"SITE", "SWC", "TS", "TA", "P">>
                  \o SelectSeq(requested,
                               LAMBDA var : var \notin {"SITE", "SWC", "TS", "TA", "P"})

\* a written table of a request whose order is not the order in which
\* assemble_variables fetches: NDVI asked before VV, VV fetched before NDVI
C11_Witness ==
    /\ Written
    /\ requested = <<"NDVI", "VV">>
    /\ df.cols = <<"SITE", "SWC", "TS", "TA", "P", "NDVI", "VV">>
    /\ Len(df.rows) > 0

\* a table of the variable is among those assemble_variables has fetched
HasTable(name) == \E k \in 1..Len(dataframes) : In(name, dataframes[k].cols)

\* assemble_variables has passed every family and is at its merge, or has
\* returned and the Driver is about to merge the site
AllFamiliesPassed == pc \in {"merge_vars", "merge_site"}

\* the polarization whose fetch raised contributes no table
RadarOmitted == \A v \in timed_out : ~HasTable(v)

\* every other requested family was still fetched: at the merge, each
\* requested family has either its table or its warning
RemainingFetched ==
    (timed_out # {} /\ AllFamiliesPassed) =>
        \A i \in 1..Len(Families) :
            In(Families[i], variable_list) =>
                (HasTable(Families[i]) \/ Families[i] \in timed_out)

\* the table returned holds the columns of every table that was fetched
ReturnedHoldsFetched ==
    (timed_out # {} /\ pc = "merge_site") =>
        \A k \in 1..Len(dataframes) :
            Range(dataframes[k].cols) \subseteq Range(df_ee.cols)

\* no exception leaves assemble_variables after a polarization was omitted
AssemblerReturns ==
    timed_out # {} =>
        ~(pc = "crashed" /\ raised \in {"UnboundLocalError", "TimeoutError"})

\* C12: when the fetch of a radar polarization raises, the polarization is
\* omitted, the other polarization and every remaining requested family are
\* still fetched, and assemble_variables returns a table that holds every
\* variable whose fetch succeeded.
C12_RadarFailureIsOmitted ==
    /\ RadarOmitted
    /\ RemainingFetched
    /\ ReturnedHoldsFetched
    /\ AssemblerReturns

\* assemble_variables has returned its table for the site
Assembled == pc = "merge_site"

\* the rows of a per-variable table that carry the date d
RowsOf(frame, d) == {i \in 1..Len(frame.rows) : frame.rows[i].Date = d}

\* C13: the table assemble_variables returns from one or more fetched
\* tables has exactly the days start_date..end_date as its index, each once
\* and in order; in the row of day d the value of every variable is the
\* value its own table has on day d; and SITE is the site id on every row.
C13_MergedByDate ==
    Assembled =>
        /\ dataframes # <<>>
        /\ Index(df_ee) = date_range(entry.start_date, entry.end_date)
        /\ In("SITE", df_ee.cols)
        /\ \A k \in 1..Len(dataframes) :
              Range(dataframes[k].cols) \subseteq Range(df_ee.cols)
        /\ \A r \in 1..Len(df_ee.rows) :
              /\ df_ee.rows[r].v["SITE"] = station
              /\ \A k \in 1..Len(dataframes) :
                    /\ Cardinality(RowsOf(dataframes[k], df_ee.rows[r].Date)) = 1
                    /\ \A i \in RowsOf(dataframes[k], df_ee.rows[r].Date) :
                          \A c \in Range(dataframes[k].cols) :
                              df_ee.rows[r].v[c] = dataframes[k].rows[i].v[c]

\* two fetched tables over a range of several days, one of them with a
\* value on one day and none on another
C13_Witness ==
    /\ Assembled
    /\ Len(dataframes) = 2
    /\ entry.start_date < entry.end_date
    /\ \E c \in Range(dataframes[2].cols) :
          \E i, j \in 1..Len(df_ee.rows) :
              /\ df_ee.rows[i].v[c] = NaN
              /\ df_ee.rows[j].v[c] # NaN
    /\ \E c \in Range(dataframes[1].cols) :
          \E i, j \in 1..Len(df_ee.rows) :
              /\ IsNum(df_ee.rows[i].v[c])
              /\ IsNum(df_ee.rows[j].v[c])
              /\ df_ee.rows[i].v[c] # df_ee.rows[j].v[c]

\* C14: with overwrite_variables true the filter removes nothing: the list
\* handed to assemble_variables for every site is the request as the
\* settings file gives it, ground-truth columns included.
C14_OverwriteKeepsRequest ==
    (pc # "filter" /\ overwrite_variables) => variable_list = requested

============================================================================
